---------------------------- MODULE Spec2Model ----------------------------
(***************************************************************************)
(* State-machine model of the 360-degree feedback application              *)
(* (src/src/App.tsx).                                                      *)
(*                                                                         *)
(* Text is modelled as a sequence of one-character strings, so that        *)
(* trim/split/includes/btoa are computed as the code computes them.        *)
(* React state updates issued by one handler run (or by one continuation   *)
(* after an await) are applied as one batch, and the useEffect that        *)
(* depends on [requests] runs right after every batch that replaced the    *)
(* requests array (React 18 createRoot semantics).                         *)
(***************************************************************************)
EXTENDS Integers, Sequences, FiniteSets

(***************************************************************************)
(* Bounds of the model.                                                    *)
(***************************************************************************)
MaxRequests == 2

MaxResponses == 2

(***************************************************************************)
(* Text helpers: String.prototype.trim / split / includes.                 *)
(***************************************************************************)
IsSpace(c) == c \in {" ", "\n"}

RECURSIVE TrimStart(_)
TrimStart(s) ==
    IF Len(s) > 0 /\ IsSpace(s[1]) THEN TrimStart(Tail(s)) ELSE s

RECURSIVE TrimEnd(_)
TrimEnd(s) ==
    IF Len(s) > 0 /\ IsSpace(s[Len(s)])
    THEN TrimEnd(SubSeq(s, 1, Len(s) - 1))
    ELSE s

Trim(s) == TrimEnd(TrimStart(s))

Includes(s, c) == \E i \in 1..Len(s) : s[i] = c

\* s.split(sep) for a one-character separator: always at least one piece.
RECURSIVE Split(_, _)
Split(s, sep) ==
    IF ~Includes(s, sep) THEN <<s>>
    ELSE LET i == CHOOSE k \in 1..Len(s) :
                     s[k] = sep /\ \A j \in 1..(k - 1) : s[j] # sep
         IN <<SubSeq(s, 1, i - 1)>> \o Split(SubSeq(s, i + 1, Len(s)), sep)

RECURSIVE MapTrim(_)
MapTrim(parts) ==
    IF Len(parts) = 0 THEN <<>>
    ELSE <<Trim(Head(parts))>> \o MapTrim(Tail(parts))

\* Array.prototype.indexOf, 1-based; 0 stands for the code's -1.
IndexOf(seq, x) ==
    IF \E i \in 1..Len(seq) : seq[i] = x
    THEN CHOOSE i \in 1..Len(seq) : seq[i] = x /\ \A j \in 1..(i - 1) : seq[j] # x
    ELSE 0

\* An optional value: <<>> when the property is absent (undefined), <<v>> when
\* it is present with value v.
Undefined == <<>>

Some(v) == <<v>>

(***************************************************************************)
(* Number.prototype.toString() of a non-negative integer (Date.now()).     *)
(***************************************************************************)
DigitChars == <<"0", "1", "2", "3", "4", "5", "6", "7", "8", "9">>

RECURSIVE NumToString(_)
NumToString(n) ==
    IF n < 10 THEN <<DigitChars[n + 1]>>
    ELSE NumToString(n \div 10) \o <<DigitChars[(n % 10) + 1]>>

(***************************************************************************)
(* btoa: base64 of the Latin-1 code units of the text.                     *)
(***************************************************************************)
CharCode(c) ==
    CASE c = "a" -> 97  [] c = "b" -> 98  [] c = "z" -> 122
      [] c = "J" -> 74  [] c = "K" -> 75
      [] c = "@" -> 64  [] c = "-" -> 45  [] c = " " -> 32
      [] c = "0" -> 48  [] c = "1" -> 49  [] c = "2" -> 50
      [] c = "3" -> 51  [] c = "4" -> 52  [] c = "5" -> 53
      [] c = "6" -> 54  [] c = "7" -> 55  [] c = "8" -> 56
      [] c = "9" -> 57

B64Chars ==
    <<"A", "B", "C", "D", "E", "F", "G", "H", "I", "J", "K", "L", "M",
      "N", "O", "P", "Q", "R", "S", "T", "U", "V", "W", "X", "Y", "Z",
      "a", "b", "c", "d", "e", "f", "g", "h", "i", "j", "k", "l", "m",
      "n", "o", "p", "q", "r", "s", "t", "u", "v", "w", "x", "y", "z",
      "0", "1", "2", "3", "4", "5", "6", "7", "8", "9", "+", "/">>

B64(n) == B64Chars[n + 1]

RECURSIVE Btoa(_)
Btoa(s) ==
    IF Len(s) = 0 THEN <<>>
    ELSE IF Len(s) = 1 THEN
        LET b1 == CharCode(s[1])
        IN <<B64(b1 \div 4), B64((b1 % 4) * 16), "=", "=">>
    ELSE IF Len(s) = 2 THEN
        LET b1 == CharCode(s[1])
            b2 == CharCode(s[2])
        IN <<B64(b1 \div 4), B64((b1 % 4) * 16 + (b2 \div 16)),
             B64((b2 % 16) * 4), "=">>
    ELSE
        LET b1 == CharCode(s[1])
            b2 == CharCode(s[2])
            b3 == CharCode(s[3])
        IN <<B64(b1 \div 4), B64((b1 % 4) * 16 + (b2 \div 16)),
             B64((b2 % 16) * 4 + (b3 \div 64)), B64(b3 % 64)>>
           \o Btoa(SubSeq(s, 4, Len(s)))

\* Variant: the delimiter is left out of the encoded text.
EncodeReviewerId_NoDelimiter(email, assessmentId) == Btoa(email \o assessmentId)

\* reviewerId = btoa(`${r.email}-${assessmentId}`)
EncodeReviewerId(email, assessmentId) == Btoa(email \o <<"-">> \o assessmentId)

(***************************************************************************)
(* Inputs.  Texts a requester can type into the creation form, the query   *)
(* string the page was loaded with, the answers of the agent.              *)
(***************************************************************************)
EmailA == <<"a", "@">>

EmailZ == <<"z", "@">>

NameS == <<"S">>

RoleE == <<"E">>

\* " J | a@ \n|b@\nK|a@" : padded fields, a reviewer without a name, and the
\* email of the first line again on the third
TextThree ==
    <<" ", "J", " ", "|", " ", "a", "@", " ", "\n",
      "|", "b", "@", "\n",
      "K", "|", "a", "@">>

\* "a@" : no '|', so the email part of the line is undefined
TextNoBar == <<"a", "@">>

\* "J|a" : no '@'
TextNoAt == <<"J", "|", "a">>

\* "J|a@" : one reviewer
TextOne == <<"J", "|", "a", "@">>

\* " \n" : blank
TextBlank == <<" ", "\n">>

EmptyForm == [candidateName |-> <<>>, candidateRole |-> <<>>, reviewerData |-> <<>>]

ValidForm == [candidateName |-> NameS, candidateRole |-> RoleE, reviewerData |-> TextThree]

FormInputs ==
    { ValidForm,
      [ValidForm EXCEPT !.reviewerData = TextNoBar],
      [ValidForm EXCEPT !.candidateName = <<" ">>] }

\* URLSearchParams.get gives null for an absent parameter; null and '' are both
\* falsy in the router's test, and both are written <<>> here.
Absent == <<>>

UrlChoices ==
    { [reviewerId |-> Absent, email |-> Absent, assessmentId |-> Absent],
      [reviewerId |-> EncodeReviewerId(EmailA, <<"1">>), email |-> EmailA,
       assessmentId |-> <<"1">>],
      [reviewerId |-> EncodeReviewerId(EmailA, <<"1">>), email |-> EmailZ,
       assessmentId |-> <<"1">>],
      [reviewerId |-> EncodeReviewerId(EmailA, <<"9">>), email |-> EmailA,
       assessmentId |-> <<"9">>] }

\* overall_score is a fraction: its values are written in hundredths
\* (3.5 is 350); counts and criterion scores are whole numbers.
ScoreUnit == 100

\* The object the agent's answer denotes: an optional result wrapper and an
\* optional feedback_summary (feedbackData = data.result || data is read through
\* feedback.feedback_summary only).
Obj(result, summary) == [result |-> result, feedback_summary |-> summary]

EmptyObject == Obj(Undefined, Undefined)

CriteriaList ==
    <<"leadership_vision", "communication_influence", "experience_expertise",
      "cultural_fit", "team_management">>

CriterionEntry(key, score, feedback) ==
    [key |-> key, data |-> [score |-> score, feedback |-> feedback]]

\* feedback_summary with every property present; the breakdown scores are 3
FullSummary ==
    [overall_score |-> Some(3 * ScoreUnit),
     total_responses |-> Some(1),
     completion_percentage |-> Some(50),
     recommendation |-> Some(<<"H", "i", "r", "e">>),
     recommendation_rationale |-> Some(<<"r">>),
     key_strengths |-> Some(<< <<"s">>, <<"t">> >>),
     key_concerns |-> Some(<< <<"c">> >>),
     criterion_breakdown |->
         Some([i \in 1..5 |-> CriterionEntry(CriteriaList[i], Some(3), Some(<<"g">>))]),
     consensus_areas |->
         Some([strong_agreement |-> Some(<<"a">>),
               areas_of_disagreement |-> Some(<<"d">>)]),
     executive_summary |-> Some(<<"x">>)]

\* feedback_summary === {}
EmptySummary ==
    [overall_score |-> Undefined,
     total_responses |-> Undefined,
     completion_percentage |-> Undefined,
     recommendation |-> Undefined,
     recommendation_rationale |-> Undefined,
     key_strengths |-> Undefined,
     key_concerns |-> Undefined,
     criterion_breakdown |-> Undefined,
     consensus_areas |-> Undefined,
     executive_summary |-> Undefined]

\* response.response of a fulfilled agent call: a text that is JSON for value,
\* or a text that is not JSON
Json(value) == [parses |-> TRUE, value |-> value]

Unparseable == [parses |-> FALSE, value |-> EmptyObject]

AgentResponses ==
    { Unparseable,
      Json(Obj(Undefined, Some(FullSummary))),
      Json(Obj(Some(Obj(Undefined, Some(FullSummary))), Undefined)) }

\* err.message of a failed agent call ('' when the error carries none)
AgentErrors == {"", "Network error"}

\* the value the reviewer moves the five sliders to
ScoreChoices == {4}

Criteria ==
    {"leadership_vision", "communication_influence", "experience_expertise",
     "cultural_fit", "team_management"}

(***************************************************************************)
(* State: the useState cells of App and of InputSection, the query string, *)
(* the clock, and the agent call that is in flight with the values its     *)
(* continuation closed over.                                               *)
(***************************************************************************)
VARIABLES currentView, requests, selectedRequest, loading, error,
          successMessage, feedbackReviewerEmail, feedbackReviewerId,
          form, url, now, inflight, probe, download, appFields

vars == <<currentView, requests, selectedRequest, loading, error,
          successMessage, feedbackReviewerEmail, feedbackReviewerId,
          form, url, now, inflight, probe, download,
                   appFields>>

\* download: the text of the last report file handed to the browser by
\* handleExportPDF, <<>> while nothing was exported

\* selectedRequest === null
NoRequest ==
    [id |-> <<>>, candidateName |-> <<>>, candidateRole |-> <<>>,
     reviewerEmails |-> <<>>, reviewerNames |-> <<>>, status |-> "none",
     createdAt |-> 0, formLinks |-> <<>>, feedback |-> EmptyObject, responses |-> <<>>]

\* probe holds the inputs and results of a pure function that is examined on its
\* own (EncSpec, RecSpec, ...); the application never writes it
NoProbe ==
    [email1 |-> <<>>, id1 |-> <<>>, email2 |-> <<>>, id2 |-> <<>>,
     token1 |-> <<>>, token2 |-> <<>>, done |-> FALSE]

\* appFields: in the variant src/unnamed/part_000 the cells candidateName,
\* candidateRole and reviewerEmails of App itself, which its handleSubmit
\* reads; App.tsx has no such cells and leaves the variable as it is.
NoAppFields ==
    [candidateName |-> <<>>, candidateRole |-> <<>>, reviewerEmails |-> <<>>]

NoCall ==
    [kind |-> "none", candidateName |-> <<>>, candidateRole |-> <<>>,
     reviewerList |-> <<>>, requests |-> <<>>]

(***************************************************************************)
(* handleSubmit, pure parts.                                               *)
(***************************************************************************)
\* line => { const [name, email] = line.split('|').map(s => s.trim());
\*           return { name: name || '', email } }
\* An undefined email (no '|' on the line) is written <<>>: the filter below
\* drops undefined and '' alike.
ParseLine(line) ==
    LET parts == MapTrim(Split(line, "|"))
    IN [name |-> parts[1],
        email |-> IF Len(parts) >= 2 THEN parts[2] ELSE <<>>]

RECURSIVE ParseLines(_)
ParseLines(lines) ==
    IF Len(lines) = 0 THEN <<>>
    ELSE LET r == ParseLine(Head(lines))
         IN (IF Len(r.email) > 0 /\ Includes(r.email, "@") THEN <<r>> ELSE <<>>)
            \o ParseLines(Tail(lines))

ReviewerList(reviewerData) == ParseLines(Split(reviewerData, "\n"))

\* Variant: the three fields are tested without trim().
FieldsMissing_NoTrim(f) ==
    \/ Len(f.candidateName) = 0
    \/ Len(f.candidateRole) = 0
    \/ Len(f.reviewerData) = 0

FieldsMissing(f) ==
    \/ Len(Trim(f.candidateName)) = 0
    \/ Len(Trim(f.candidateRole)) = 0
    \/ Len(Trim(f.reviewerData)) = 0

Origin == <<"origin">>

LinkText(reviewerId, email, assessmentId) ==
    Origin \o <<"?reviewerId=">> \o reviewerId \o <<"&email=">> \o email
           \o <<"&assessmentId=">> \o assessmentId

\* Variant: the token is derived from the reviewer's name instead of the email.
FormLink_TokenFromName(r, assessmentId) ==
    [email |-> r.email,
     reviewerName |-> r.name,
     link |-> LinkText(EncodeReviewerId(r.name, assessmentId), r.email, assessmentId),
     status |-> "sent"]

FormLink(r, assessmentId) ==
    [email |-> r.email,
     reviewerName |-> r.name,
     link |-> LinkText(EncodeReviewerId(r.email, assessmentId), r.email, assessmentId),
     status |-> "sent"]

FormLinks(reviewerList, assessmentId) ==
    [i \in 1..Len(reviewerList) |-> FormLink(reviewerList[i], assessmentId)]

NewRequest(candidateName, candidateRole, reviewerList, t, feedbackData) ==
    [id |-> NumToString(t),
     candidateName |-> candidateName,
     candidateRole |-> candidateRole,
     reviewerEmails |-> [i \in 1..Len(reviewerList) |-> reviewerList[i].email],
     reviewerNames |-> [i \in 1..Len(reviewerList) |-> reviewerList[i].name],
     status |-> "sent",
     createdAt |-> t,
     formLinks |-> FormLinks(reviewerList, NumToString(t)),
     feedback |-> feedbackData,
     responses |-> <<>>]

\* parseLLMJson(text, fallback) of @/utils/jsonParser: the value the text
\* denotes, or the fallback when the text cannot be parsed
ParseLLMJson(response, fallback) ==
    IF response.parses THEN response.value ELSE fallback

\* const data = parseLLMJson(response.response, {})
\* const feedbackData = data.result || data
FeedbackData(response) ==
    LET data == ParseLLMJson(response, EmptyObject)
    IN IF data.result # Undefined THEN data.result[1] ELSE data

\* setRequests([...requests, newRequest]) with the requests of the closure
AddRequest(captured, newRequest) == Append(captured, newRequest)

(***************************************************************************)
(* handleFeedbackSubmit and FeedbackFormView.handleSubmit, pure parts.     *)
(***************************************************************************)
AllScores(v) == [c \in Criteria |-> v]

NoComments == [c \in Criteria |-> <<>>]

\* reviewerName: request.reviewerNames[request.reviewerEmails.indexOf(reviewerEmail)]
\*               || reviewerEmail
MakeSubmission(request, reviewerEmail, t, scores, textResponses) ==
    LET i == IndexOf(request.reviewerEmails, reviewerEmail)
        n == IF i = 0 THEN <<>> ELSE request.reviewerNames[i]
    IN [reviewerEmail |-> reviewerEmail,
        reviewerName |-> IF Len(n) > 0 THEN n ELSE reviewerEmail,
        submissionTimestamp |-> t,
        scores |-> scores,
        textResponses |-> textResponses]

\* Variant: the assessment is marked completed when a submission arrives.
UpdatedRequest_MarksCompleted(sel, submission) ==
    [sel EXCEPT !.responses = Append(@, submission), !.status = "completed"]

\* Variant: a reviewer's new submission replaces the earlier one.
UpdatedRequest_ReplaceSameReviewer(sel, submission) ==
    [sel EXCEPT !.responses =
        Append(SelectSeq(@, LAMBDA x : x.reviewerEmail # submission.reviewerEmail),
               submission)]

UpdatedRequest(sel, submission) ==
    [sel EXCEPT !.responses = Append(@, submission)]

\* Variant: the map replaces every entry, whatever its id.
ReplaceById_NoIdCheck(reqs, id, updatedRequest) ==
    [i \in 1..Len(reqs) |-> updatedRequest]

\* requests.map(r => (r.id === selectedRequest.id ? updatedRequest : r))
ReplaceById(reqs, id, updatedRequest) ==
    [i \in 1..Len(reqs) |-> IF reqs[i].id = id THEN updatedRequest ELSE reqs[i]]

(***************************************************************************)
(* generatePDFContent and SummaryView.  A text is a sequence whose elements *)
(* are characters, the fixed pieces of the template, and "\n".              *)
(***************************************************************************)
\* `${v}` of a template literal for a text that may be undefined
TextOf(v) == IF v = Undefined THEN <<"u", "n", "d", "e", "f", "i", "n", "e", "d">> ELSE v[1]

\* `${v}` of a template literal for a number that may be undefined
NumberOf(v) == IF v = Undefined THEN <<"u", "n", "d", "e", "f", "i", "n", "e", "d">> ELSE NumToString(v[1])

\* v || 0
OrZero(v) == IF v = Undefined THEN 0 ELSE v[1]

\* v || []
OrEmptyList(v) == IF v = Undefined THEN <<>> ELSE v[1]

\* v || {} for a feedback_summary
OrEmptySummary(v) == IF v = Undefined THEN EmptySummary ELSE v[1]

\* Number.prototype.toFixed(0) of a non-negative number given in hundredths:
\* the nearest integer, the larger one when two are equally near
ToFixed0(v) == NumToString((v + ScoreUnit \div 2) \div ScoreUnit)

\* Array.prototype.join
RECURSIVE Join(_, _)
Join(lines, sep) ==
    IF Len(lines) = 0 THEN <<>>
    ELSE IF Len(lines) = 1 THEN lines[1]
    ELSE lines[1] \o sep \o Join(Tail(lines), sep)

MsPerDay == 86400000

\* new Date(createdAt).toLocaleDateString(): the calendar day of the instant,
\* in the locale and time zone of the browser
ToLocaleDateString(t) == <<"day ">> \o NumToString(t \div MsPerDay)

\* s => `(bullet) ${s}`; "(bullet) " stands for the bullet character and a space
Bullets(list) == [i \in 1..Len(list) |-> <<"(bullet) ">> \o list[i]]

\* ([key, data]) => `${key}: ${data.score}/5 - ${data.feedback}`
BreakdownLines(entries) ==
    [i \in 1..Len(entries) |->
        <<entries[i].key, ": ">> \o NumberOf(entries[i].data.score)
            \o <<"/5 - ">> \o TextOf(entries[i].data.feedback)]

\* feedback.consensus_areas?.strong_agreement, ...?.areas_of_disagreement
ConsensusOf(feedback, part) ==
    IF feedback.consensus_areas = Undefined THEN Undefined
    ELSE feedback.consensus_areas[1][part]

\* Variant: 'Total Responses' is counted from the stored submissions.
GeneratePDFContent_CountsResponses(request) ==
    LET feedback == OrEmptySummary(request.feedback.feedback_summary)
    IN Trim(
        <<"\n", "FEEDBACK ASSESSMENT REPORT", "\n", "==========================", "\n",
          "\n", "Candidate: ">> \o request.candidateName
        \o <<"\n", "Position: ">> \o request.candidateRole
        \o <<"\n", "Assessment Date: ">> \o ToLocaleDateString(request.createdAt)
        \o <<"\n", "\n", "OVERALL SCORE", "\n", "=============", "\n",
             "Overall Score: ">> \o ToFixed0(OrZero(feedback.overall_score) * 20)
        \o <<"%", "\n", "Total Responses: ">> \o NumToString(Len(request.responses))
        \o <<"\n", "Completion: ">> \o NumToString(OrZero(feedback.completion_percentage))
        \o <<"%", "\n", "\n", "RECOMMENDATION", "\n", "==============", "\n",
             "Recommendation: ">> \o TextOf(feedback.recommendation)
        \o <<"\n", "Rationale: ">> \o TextOf(feedback.recommendation_rationale)
        \o <<"\n", "\n", "KEY STRENGTHS", "\n", "=============", "\n">>
        \o Join(Bullets(OrEmptyList(feedback.key_strengths)), <<"\n">>)
        \o <<"\n", "\n", "KEY CONCERNS", "\n", "============", "\n">>
        \o Join(Bullets(OrEmptyList(feedback.key_concerns)), <<"\n">>)
        \o <<"\n", "\n", "CRITERION BREAKDOWN", "\n", "===================", "\n">>
        \o Join(BreakdownLines(OrEmptyList(feedback.criterion_breakdown)), <<"\n">>)
        \o <<"\n", "\n", "CONSENSUS AREAS", "\n", "===============", "\n",
             "Strong Agreement: ">> \o TextOf(ConsensusOf(feedback, "strong_agreement"))
        \o <<"\n", "Areas of Disagreement: ">>
        \o TextOf(ConsensusOf(feedback, "areas_of_disagreement"))
        \o <<"\n", "\n", "EXECUTIVE SUMMARY", "\n", "=================", "\n">>
        \o TextOf(feedback.executive_summary)
        \o <<"\n", " ", " ">>)

\* const feedback = request.feedback?.feedback_summary || {}; the template; trim().
GeneratePDFContent(request) ==
    LET feedback == OrEmptySummary(request.feedback.feedback_summary)
    IN Trim(
        <<"\n", "FEEDBACK ASSESSMENT REPORT", "\n", "==========================", "\n",
          "\n", "Candidate: ">> \o request.candidateName
        \o <<"\n", "Position: ">> \o request.candidateRole
        \o <<"\n", "Assessment Date: ">> \o ToLocaleDateString(request.createdAt)
        \o <<"\n", "\n", "OVERALL SCORE", "\n", "=============", "\n",
             "Overall Score: ">> \o ToFixed0(OrZero(feedback.overall_score) * 20)
        \o <<"%", "\n", "Total Responses: ">> \o NumToString(OrZero(feedback.total_responses))
        \o <<"\n", "Completion: ">> \o NumToString(OrZero(feedback.completion_percentage))
        \o <<"%", "\n", "\n", "RECOMMENDATION", "\n", "==============", "\n",
             "Recommendation: ">> \o TextOf(feedback.recommendation)
        \o <<"\n", "Rationale: ">> \o TextOf(feedback.recommendation_rationale)
        \o <<"\n", "\n", "KEY STRENGTHS", "\n", "=============", "\n">>
        \o Join(Bullets(OrEmptyList(feedback.key_strengths)), <<"\n">>)
        \o <<"\n", "\n", "KEY CONCERNS", "\n", "============", "\n">>
        \o Join(Bullets(OrEmptyList(feedback.key_concerns)), <<"\n">>)
        \o <<"\n", "\n", "CRITERION BREAKDOWN", "\n", "===================", "\n">>
        \o Join(BreakdownLines(OrEmptyList(feedback.criterion_breakdown)), <<"\n">>)
        \o <<"\n", "\n", "CONSENSUS AREAS", "\n", "===============", "\n",
             "Strong Agreement: ">> \o TextOf(ConsensusOf(feedback, "strong_agreement"))
        \o <<"\n", "Areas of Disagreement: ">>
        \o TextOf(ConsensusOf(feedback, "areas_of_disagreement"))
        \o <<"\n", "\n", "EXECUTIVE SUMMARY", "\n", "=================", "\n">>
        \o TextOf(feedback.executive_summary)
        \o <<"\n", " ", " ">>)

\* Variant: the percentage is cut off instead of rounded.
OverallPercent_Floor(feedback) ==
    LET summary == OrEmptySummary(feedback.feedback_summary)
        overallScore == OrZero(summary.overall_score)
    IN NumToString((overallScore * 20) \div ScoreUnit) \o <<"%">>

\* SummaryView: overallScore = summary.overall_score || 0 and the text
\* {(overallScore * 20).toFixed(0)}%
OverallPercent(feedback) ==
    LET summary == OrEmptySummary(feedback.feedback_summary)
        overallScore == OrZero(summary.overall_score)
    IN ToFixed0(overallScore * 20) \o <<"%">>

\* criterionBreakdown[criterion.key]: the entry stored under the key, if any
BreakdownEntry(entries, key) ==
    IF \E i \in 1..Len(entries) : entries[i].key = key
    THEN Some(entries[CHOOSE i \in 1..Len(entries) : entries[i].key = key].data)
    ELSE Undefined

DefaultCriterion == [score |-> Some(0), feedback |-> Some(<<>>)]

\* Variant: criterion_breakdown is read without the || {} default, so a
\* property of undefined is read when the breakdown is absent.
SummaryView_NoBreakdownDefault(feedback) ==
    LET summary == OrEmptySummary(feedback.feedback_summary)
    IN IF summary.criterion_breakdown = Undefined
       THEN [raised |-> TRUE, shown |-> <<>>]
       ELSE [raised |-> FALSE,
             shown |-> [i \in 1..Len(CriteriaList) |->
                 LET e == BreakdownEntry(summary.criterion_breakdown[1], CriteriaList[i])
                 IN IF e = Undefined THEN DefaultCriterion ELSE e[1]]]

\* SummaryView: summary = feedback.feedback_summary || {},
\* criterionBreakdown = summary.criterion_breakdown || {}, and for each of
\* criteriaList  data = criterionBreakdown[key] || { score: 0, feedback: '' }.
\* No property of an undefined value is read, so the render does not raise.
SummaryView(feedback) ==
    LET summary == OrEmptySummary(feedback.feedback_summary)
        criterionBreakdown == OrEmptyList(summary.criterion_breakdown)
    IN [raised |-> FALSE,
        shown |-> [i \in 1..Len(CriteriaList) |->
            LET e == BreakdownEntry(criterionBreakdown, CriteriaList[i])
            IN IF e = Undefined THEN DefaultCriterion ELSE e[1]]]

(***************************************************************************)
(* The useEffect on [requests]: the view router.                           *)
(***************************************************************************)
\* requests.find(r => r.id === assessmentId): index of the first match, 0 if none
FindRequest(reqs, assessmentId) ==
    IF \E i \in 1..Len(reqs) : reqs[i].id = assessmentId
    THEN CHOOSE i \in 1..Len(reqs) :
             reqs[i].id = assessmentId /\ \A j \in 1..(i - 1) : reqs[j].id # assessmentId
    ELSE 0

UrlComplete(u) ==
    Len(u.reviewerId) > 0 /\ Len(u.email) > 0 /\ Len(u.assessmentId) > 0

\* Variant: the view is switched although no assessment was found.
RouterEffect_NoMatchCheck(u, reqs, s) ==
    IF UrlComplete(u)
    THEN LET i == FindRequest(reqs, u.assessmentId)
             bound == [s EXCEPT !.feedbackReviewerId = u.reviewerId,
                                !.feedbackReviewerEmail = u.email,
                                !.currentView = "feedback"]
         IN IF i # 0 THEN [bound EXCEPT !.selectedRequest = reqs[i]] ELSE bound
    ELSE s

\* Variant: the effect has no dependency, it runs after the first render only.
RouterEffect_MountOnly(u, reqs, s) ==
    IF UrlComplete(u) /\ reqs = <<>>
    THEN [s EXCEPT !.feedbackReviewerId = u.reviewerId,
                   !.feedbackReviewerEmail = u.email]
    ELSE s

\* s: the cells the effect may write, as left by the batch that changed requests
RouterEffect(u, reqs, s) ==
    IF UrlComplete(u)
    THEN LET i == FindRequest(reqs, u.assessmentId)
             bound == [s EXCEPT !.feedbackReviewerId = u.reviewerId,
                                !.feedbackReviewerEmail = u.email]
         IN IF i # 0
            THEN [bound EXCEPT !.selectedRequest = reqs[i], !.currentView = "feedback"]
            ELSE bound
    ELSE s

Cells(view, sel, rid, email) ==
    [currentView |-> view, selectedRequest |-> sel,
     feedbackReviewerId |-> rid, feedbackReviewerEmail |-> email]

\* InputSection keeps its text only while it stays mounted
FormAfter(viewAfter) ==
    IF currentView = "input" /\ viewAfter = "input" THEN form ELSE EmptyForm

(***************************************************************************)
(* Init: the state after the first render and the first run of the effect  *)
(* (requests is empty, so only the reviewer binding can be set).           *)
(***************************************************************************)
Init ==
    /\ url \in UrlChoices
    /\ requests = <<>>
    /\ LET s == RouterEffect(url, <<>>, Cells("input", NoRequest, <<>>, <<>>))
       IN /\ currentView = s.currentView
          /\ selectedRequest = s.selectedRequest
          /\ feedbackReviewerId = s.feedbackReviewerId
          /\ feedbackReviewerEmail = s.feedbackReviewerEmail
    /\ loading = FALSE
    /\ error = ""
    /\ successMessage = ""
    /\ form = EmptyForm
    /\ now = 1
    /\ inflight = <<>>
    /\ download = <<>>
    /\ appFields = NoAppFields
    /\ probe = NoProbe


\* number of submissions stored in the whole list (bounded by MaxResponses)
RECURSIVE TotalResponses(_)
TotalResponses(reqs) ==
    IF Len(reqs) = 0 THEN 0
    ELSE Len(Head(reqs).responses) + TotalResponses(Tail(reqs))

(***************************************************************************)
(* Actions.  inflight is the sequence of agent calls that were issued and  *)
(* have not been settled; a call is settled by the continuation of the     *)
(* handler that issued it (try / catch / finally after the await).         *)
(***************************************************************************)
Call(kind) == [NoCall EXCEPT !.kind = kind]

Settled(k) == [i \in 1..(Len(inflight) - 1) |->
                  IF i < k THEN inflight[i] ELSE inflight[i + 1]]

\* Variant: the submit button of the creation form is never disabled.
StartAssessmentDisabled_Never == FALSE

\* <Button type="submit" disabled={loading}> of InputSection
StartAssessmentDisabled == loading

\* Variant: the resend button is never disabled.
ResendDisabled_Never == FALSE

\* <Button onClick={onResendInvitations} disabled={loading}> of DetailsView
ResendDisabled == loading

\* <Button type="submit" disabled={loading}> of FeedbackFormView
SubmitFeedbackDisabled == loading

\* The error message is rendered by InputSection only ({error && <Alert>}), and
\* InputSection is rendered in the 'input' view only.
ErrorShown == currentView = "input" /\ error # ""

\* InputSection: onChange of the three fields
TypeForm(f) ==
    /\ currentView = "input"
    /\ form' = f
    /\ UNCHANGED <<currentView, requests, selectedRequest, loading, error,
                   successMessage, feedbackReviewerEmail, feedbackReviewerId,
                   url, now, inflight, probe, download,
                   appFields>>

\* Header buttons 'New Assessment', 'Give Feedback', 'Dashboard' (hidden in the
\* feedback view)
Navigate(view) ==
    /\ currentView # "feedback"
    /\ currentView' = view
    /\ form' = FormAfter(view)
    /\ UNCHANGED <<requests, selectedRequest, loading, error, successMessage,
                   feedbackReviewerEmail, feedbackReviewerId, url, now, inflight,
                   probe, download,
                   appFields>>

\* Header button 'Back' (shown only in the feedback view)
Back ==
    /\ currentView = "feedback"
    /\ currentView' = "input"
    /\ form' = EmptyForm
    /\ UNCHANGED <<requests, selectedRequest, loading, error, successMessage,
                   feedbackReviewerEmail, feedbackReviewerId, url, now, inflight,
                   probe, download,
                   appFields>>

\* DashboardSection: onSelectRequest = setSelectedRequest
SelectRequest(i) ==
    /\ currentView = "dashboard"
    /\ i \in 1..Len(requests)
    /\ selectedRequest' = requests[i]
    /\ UNCHANGED <<currentView, requests, loading, error, successMessage,
                   feedbackReviewerEmail, feedbackReviewerId, form, url, now,
                   inflight, probe, download,
                   appFields>>

\* FeedbackAccessSection 'Provide Feedback' -> handleSelectAssessmentForFeedback.
\* The section is rendered in the feedback view while selectedRequest is null and
\* lists the assessments; its button is disabled unless the typed email has '@'.
\* No reachable state enables it (every create selects the assessment it adds and
\* nothing resets the selection), so it is not a disjunct of Next.
HandleSelectAssessmentForFeedback(i, email) ==
    /\ currentView = "feedback"
    /\ selectedRequest = NoRequest
    /\ i \in 1..Len(requests)
    /\ Includes(email, "@")
    /\ selectedRequest' = requests[i]
    /\ feedbackReviewerEmail' = email
    /\ UNCHANGED <<currentView, requests, loading, error, successMessage,
                   feedbackReviewerId, form, url, now, inflight, probe, download,
                   appFields>>

\* handleSubmit up to its first return or to the await
HandleSubmit ==
    /\ currentView = "input"
    /\ ~StartAssessmentDisabled
    /\ Len(requests) < MaxRequests
    /\ successMessage' = ""
    /\ IF FieldsMissing(form)
       THEN /\ error' = "Please fill in all fields"
            /\ UNCHANGED <<loading, inflight>>
       ELSE IF Len(ReviewerList(form.reviewerData)) = 0
       THEN /\ error' = "Please enter at least one valid reviewer with email"
            /\ UNCHANGED <<loading, inflight>>
       ELSE /\ error' = ""
            /\ loading' = TRUE
            /\ inflight' = Append(inflight,
                               [kind |-> "create",
                                candidateName |-> form.candidateName,
                                candidateRole |-> form.candidateRole,
                                reviewerList |-> ReviewerList(form.reviewerData),
                                requests |-> requests])
    /\ UNCHANGED <<currentView, requests, selectedRequest, feedbackReviewerEmail,
                   feedbackReviewerId, form, url, now, probe, download,
                   appFields>>

\* Variant: the answer is parsed without a fallback, so a text that is not
\* JSON throws inside try and the handler ends in catch and finally.
CreateReturns_ParseFailureThrows(k, response) ==
    /\ k \in 1..Len(inflight)
    /\ inflight[k].kind = "create"
    /\ IF response.parses
       THEN LET c == inflight[k]
                newRequest == NewRequest(c.candidateName, c.candidateRole,
                                         c.reviewerList, now, FeedbackData(response))
                reqs == AddRequest(c.requests, newRequest)
                s == RouterEffect(url, reqs,
                         Cells("dashboard", newRequest, feedbackReviewerId,
                               feedbackReviewerEmail))
            IN /\ requests' = reqs
               /\ selectedRequest' = s.selectedRequest
               /\ currentView' = s.currentView
               /\ feedbackReviewerId' = s.feedbackReviewerId
               /\ feedbackReviewerEmail' = s.feedbackReviewerEmail
               /\ form' = FormAfter(s.currentView)
               /\ successMessage' =
                     "Assessment created! Share the feedback form links with reviewers."
               /\ now' = now + 1
               /\ UNCHANGED error
       ELSE /\ error' = "Failed to process request"
            /\ UNCHANGED <<currentView, requests, selectedRequest, successMessage,
                           feedbackReviewerEmail, feedbackReviewerId, form, now>>
    /\ loading' = FALSE
    /\ inflight' = Settled(k)
    /\ UNCHANGED <<url, probe, download,
                   appFields>>

\* handleSubmit after the await, agent call fulfilled: rest of try, finally
CreateReturns(k, response) ==
    /\ k \in 1..Len(inflight)
    /\ inflight[k].kind = "create"
    /\ LET c == inflight[k]
           newRequest == NewRequest(c.candidateName, c.candidateRole,
                                    c.reviewerList, now, FeedbackData(response))
           reqs == AddRequest(c.requests, newRequest)
           s == RouterEffect(url, reqs,
                    Cells("dashboard", newRequest, feedbackReviewerId,
                          feedbackReviewerEmail))
       IN /\ requests' = reqs
          /\ selectedRequest' = s.selectedRequest
          /\ currentView' = s.currentView
          /\ feedbackReviewerId' = s.feedbackReviewerId
          /\ feedbackReviewerEmail' = s.feedbackReviewerEmail
          /\ form' = FormAfter(s.currentView)
    /\ successMessage' = "Assessment created! Share the feedback form links with reviewers."
    /\ loading' = FALSE
    /\ inflight' = Settled(k)
    /\ now' = now + 1
    /\ UNCHANGED <<error, url, probe, download,
                   appFields>>

\* Variant: the catch block stores err.message without the fallback text.
CreateThrows_NoFallback(k, message) ==
    /\ k \in 1..Len(inflight)
    /\ inflight[k].kind = "create"
    /\ error' = message
    /\ loading' = FALSE
    /\ inflight' = Settled(k)
    /\ UNCHANGED <<currentView, requests, selectedRequest, successMessage,
                   feedbackReviewerEmail, feedbackReviewerId, form, url, now,
                   probe, download,
                   appFields>>

\* handleSubmit after the await, agent call rejected: catch, finally
CreateThrows(k, message) ==
    /\ k \in 1..Len(inflight)
    /\ inflight[k].kind = "create"
    /\ error' = IF message # "" THEN message ELSE "Failed to process request"
    /\ loading' = FALSE
    /\ inflight' = Settled(k)
    /\ UNCHANGED <<currentView, requests, selectedRequest, successMessage,
                   feedbackReviewerEmail, feedbackReviewerId, form, url, now,
                   probe, download,
                   appFields>>

\* Variant: setSelectedRequest(updatedRequest) is missing.
HandleFeedbackSubmit_KeepsSelection(score) ==
    /\ currentView = "feedback"
    /\ selectedRequest # NoRequest
    /\ ~SubmitFeedbackDisabled
    /\ TotalResponses(requests) < MaxResponses
    /\ LET submission == MakeSubmission(selectedRequest, feedbackReviewerEmail, now,
                                        AllScores(score), NoComments)
           updatedRequest == UpdatedRequest(selectedRequest, submission)
           reqs == ReplaceById(requests, selectedRequest.id, updatedRequest)
           s == RouterEffect(url, reqs, Cells("input", selectedRequest, <<>>, <<>>))
       IN /\ requests' = reqs
          /\ selectedRequest' = s.selectedRequest
          /\ currentView' = s.currentView
          /\ feedbackReviewerId' = s.feedbackReviewerId
          /\ feedbackReviewerEmail' = s.feedbackReviewerEmail
    /\ successMessage' = "Thank you! Your feedback has been submitted."
    /\ loading' = TRUE
    /\ inflight' = Append(inflight, Call("feedback"))
    /\ now' = now + 1
    /\ UNCHANGED <<error, form, url, probe, download,
                   appFields>>

\* FeedbackFormView.handleSubmit and handleFeedbackSubmit up to the await
HandleFeedbackSubmit(score) ==
    /\ currentView = "feedback"
    /\ selectedRequest # NoRequest
    /\ ~SubmitFeedbackDisabled
    /\ TotalResponses(requests) < MaxResponses
    /\ LET submission == MakeSubmission(selectedRequest, feedbackReviewerEmail, now,
                                        AllScores(score), NoComments)
           updatedRequest == UpdatedRequest(selectedRequest, submission)
           reqs == ReplaceById(requests, selectedRequest.id, updatedRequest)
           s == RouterEffect(url, reqs, Cells("input", updatedRequest, <<>>, <<>>))
       IN /\ requests' = reqs
          /\ selectedRequest' = s.selectedRequest
          /\ currentView' = s.currentView
          /\ feedbackReviewerId' = s.feedbackReviewerId
          /\ feedbackReviewerEmail' = s.feedbackReviewerEmail
    /\ successMessage' = "Thank you! Your feedback has been submitted."
    /\ loading' = TRUE
    /\ inflight' = Append(inflight, Call("feedback"))
    /\ now' = now + 1
    /\ UNCHANGED <<error, form, url, probe, download,
                   appFields>>

\* handleFeedbackSubmit after the await, agent call fulfilled: finally
FeedbackReturns(k) ==
    /\ k \in 1..Len(inflight)
    /\ inflight[k].kind = "feedback"
    /\ loading' = FALSE
    /\ inflight' = Settled(k)
    /\ UNCHANGED <<currentView, requests, selectedRequest, error, successMessage,
                   feedbackReviewerEmail, feedbackReviewerId, form, url, now,
                   probe, download,
                   appFields>>

\* Variant: the catch block takes the last submission of the selected
\* assessment out of the list again.
FeedbackThrows_RollsBack(k, message) ==
    /\ k \in 1..Len(inflight)
    /\ inflight[k].kind = "feedback"
    /\ error' = IF message # "" THEN message ELSE "Failed to submit feedback"
    /\ loading' = FALSE
    /\ inflight' = Settled(k)
    /\ requests' =
          [i \in 1..Len(requests) |->
              IF requests[i].id = selectedRequest.id /\ Len(requests[i].responses) > 0
              THEN [requests[i] EXCEPT
                      !.responses = SubSeq(@, 1, Len(@) - 1)]
              ELSE requests[i]]
    /\ UNCHANGED <<currentView, selectedRequest, successMessage,
                   feedbackReviewerEmail, feedbackReviewerId, form, url, now,
                   probe, download,
                   appFields>>

\* handleFeedbackSubmit after the await, agent call rejected: catch, finally
FeedbackThrows(k, message) ==
    /\ k \in 1..Len(inflight)
    /\ inflight[k].kind = "feedback"
    /\ error' = IF message # "" THEN message ELSE "Failed to submit feedback"
    /\ loading' = FALSE
    /\ inflight' = Settled(k)
    /\ UNCHANGED <<currentView, requests, selectedRequest, successMessage,
                   feedbackReviewerEmail, feedbackReviewerId, form, url, now,
                   probe, download,
                   appFields>>

\* Variant: resend marks the form links of the assessment as resent.
HandleResendInvitations_MarksLinks ==
    /\ currentView = "dashboard"
    /\ Len(requests) > 0
    /\ selectedRequest # NoRequest
    /\ ~ResendDisabled
    /\ loading' = TRUE
    /\ inflight' = Append(inflight, Call("resend"))
    /\ requests' =
          [i \in 1..Len(requests) |->
              IF requests[i].id = selectedRequest.id
              THEN [requests[i] EXCEPT !.formLinks =
                      [j \in 1..Len(@) |-> [@[j] EXCEPT !.status = "resent"]]]
              ELSE requests[i]]
    /\ UNCHANGED <<currentView, selectedRequest, error, successMessage,
                   feedbackReviewerEmail, feedbackReviewerId, form, url, now,
                   probe, download,
                   appFields>>

\* handleResendInvitations up to the await.  DetailsView is rendered in the
\* dashboard when the list is not empty and an assessment is selected.
HandleResendInvitations ==
    /\ currentView = "dashboard"
    /\ Len(requests) > 0
    /\ selectedRequest # NoRequest
    /\ ~ResendDisabled
    /\ loading' = TRUE
    /\ inflight' = Append(inflight, Call("resend"))
    /\ UNCHANGED <<currentView, requests, selectedRequest, error, successMessage,
                   feedbackReviewerEmail, feedbackReviewerId, form, url, now,
                   probe, download,
                   appFields>>

\* handleResendInvitations after the await, agent call fulfilled
ResendReturns(k) ==
    /\ k \in 1..Len(inflight)
    /\ inflight[k].kind = "resend"
    /\ successMessage' = "Invitations resent successfully!"
    /\ loading' = FALSE
    /\ inflight' = Settled(k)
    /\ UNCHANGED <<currentView, requests, selectedRequest, error,
                   feedbackReviewerEmail, feedbackReviewerId, form, url, now,
                   probe, download,
                   appFields>>

\* Variant: setLoading(false) sits at the end of try instead of in finally.
ResendThrows_NoFinally(k, message) ==
    /\ k \in 1..Len(inflight)
    /\ inflight[k].kind = "resend"
    /\ error' = IF message # "" THEN message ELSE "Failed to resend invitations"
    /\ inflight' = Settled(k)
    /\ UNCHANGED <<currentView, requests, selectedRequest, successMessage, loading,
                   feedbackReviewerEmail, feedbackReviewerId, form, url, now,
                   probe, download,
                   appFields>>

\* handleResendInvitations after the await, agent call rejected
ResendThrows(k, message) ==
    /\ k \in 1..Len(inflight)
    /\ inflight[k].kind = "resend"
    /\ error' = IF message # "" THEN message ELSE "Failed to resend invitations"
    /\ loading' = FALSE
    /\ inflight' = Settled(k)
    /\ UNCHANGED <<currentView, requests, selectedRequest, successMessage,
                   feedbackReviewerEmail, feedbackReviewerId, form, url, now,
                   probe, download,
                   appFields>>

\* the agent settles one of the outstanding calls
AgentCompletes ==
    \E k \in 1..Len(inflight) :
        \/ \E r \in AgentResponses : CreateReturns(k, r)
        \/ \E m \in AgentErrors : CreateThrows(k, m)
        \/ FeedbackReturns(k)
        \/ \E m \in AgentErrors : FeedbackThrows(k, m)
        \/ ResendReturns(k)
        \/ \E m \in AgentErrors : ResendThrows(k, m)

Next ==
    \/ \E f \in FormInputs : TypeForm(f)
    \/ \E v \in {"input", "feedback", "dashboard"} : Navigate(v)
    \/ Back
    \/ \E i \in 1..MaxRequests : SelectRequest(i)
    \/ HandleSubmit
    \/ \E sc \in ScoreChoices : HandleFeedbackSubmit(sc)
    \/ HandleResendInvitations
    \/ \E k \in 1..Len(inflight), r \in AgentResponses : CreateReturns(k, r)
    \/ \E k \in 1..Len(inflight), m \in AgentErrors : CreateThrows(k, m)
    \/ \E k \in 1..Len(inflight) : FeedbackReturns(k)
    \/ \E k \in 1..Len(inflight), m \in AgentErrors : FeedbackThrows(k, m)
    \/ \E k \in 1..Len(inflight) : ResendReturns(k)
    \/ \E k \in 1..Len(inflight), m \in AgentErrors : ResendThrows(k, m)

Spec == Init /\ [][Next]_vars

\* Every agent call that was issued is eventually fulfilled or rejected.
FairSpec == Spec /\ WF_vars(AgentCompletes)

(***************************************************************************)
(* The application with the export of the report observed: the creation    *)
(* form is filled with a single reviewer line.                             *)
(***************************************************************************)
\* handleExportPDF ('Export' button of DetailsView, not disabled while loading):
\* returns when nothing is selected or the selected assessment has no feedback
\* (feedbackData is an object, hence truthy); otherwise the report text is
\* handed to the browser as a file.
HandleExportPDF ==
    /\ currentView = "dashboard"
    /\ Len(requests) > 0
    /\ selectedRequest # NoRequest
    /\ download' = GeneratePDFContent(selectedRequest)
    /\ UNCHANGED <<currentView, requests, selectedRequest, loading, error,
                   successMessage, feedbackReviewerEmail, feedbackReviewerId,
                   form, url, now, inflight, probe, appFields>>

ExportForms == { [ValidForm EXCEPT !.reviewerData = TextOne] }

ExportNext ==
    \/ \E f \in ExportForms : TypeForm(f)
    \/ \E v \in {"input", "feedback", "dashboard"} : Navigate(v)
    \/ Back
    \/ \E i \in 1..MaxRequests : SelectRequest(i)
    \/ HandleSubmit
    \/ \E sc \in ScoreChoices : HandleFeedbackSubmit(sc)
    \/ HandleResendInvitations
    \/ HandleExportPDF
    \/ \E k \in 1..Len(inflight), r \in AgentResponses : CreateReturns(k, r)
    \/ \E k \in 1..Len(inflight), m \in AgentErrors : CreateThrows(k, m)
    \/ \E k \in 1..Len(inflight) : FeedbackReturns(k)
    \/ \E k \in 1..Len(inflight), m \in AgentErrors : FeedbackThrows(k, m)
    \/ \E k \in 1..Len(inflight) : ResendReturns(k)
    \/ \E k \in 1..Len(inflight), m \in AgentErrors : ResendThrows(k, m)

ExportSpec == Init /\ [][ExportNext]_vars

(***************************************************************************)
(* The creation flow on its own, with every combination of form texts: the *)
(* page is loaded without query string and the user only types, submits    *)
(* the creation form and moves between the views.                          *)
(***************************************************************************)
WideForms ==
    [candidateName : {<<>>, <<" ">>, NameS},
     candidateRole : {<<>>, RoleE},
     reviewerData : {<<>>, TextBlank, TextNoAt, TextNoBar, TextThree}]

FormInit ==
    /\ Init
    /\ ~UrlComplete(url)

FormNext ==
    \/ \E f \in WideForms : TypeForm(f)
    \/ \E v \in {"input", "feedback", "dashboard"} : Navigate(v)
    \/ Back
    \/ HandleSubmit
    \/ \E k \in 1..Len(inflight), r \in AgentResponses : CreateReturns(k, r)
    \/ \E k \in 1..Len(inflight), m \in AgentErrors : CreateThrows(k, m)

FormSpec == FormInit /\ [][FormNext]_vars

(***************************************************************************)
(* The identity encoder on its own: two (email, id) pairs are drawn and    *)
(* encoded as handleSubmit encodes them.                                   *)
(***************************************************************************)
ProbeEmails ==
    { <<"a", "@">>, <<"a", "@", "-", "1">>, <<"a", "@", "1">>, <<"a", "-", "@">> }

ProbeIds ==
    { <<"1">>, <<"2">>, <<"1", "2">>, <<"1", "-", "2">> }

EncInit ==
    /\ probe \in [email1 : ProbeEmails, id1 : ProbeIds,
                  email2 : ProbeEmails, id2 : ProbeIds,
                  token1 : {<<>>}, token2 : {<<>>}, done : {FALSE}]
    /\ url = [reviewerId |-> Absent, email |-> Absent, assessmentId |-> Absent]
    /\ requests = <<>>
    /\ currentView = "input"
    /\ selectedRequest = NoRequest
    /\ feedbackReviewerId = <<>>
    /\ feedbackReviewerEmail = <<>>
    /\ loading = FALSE
    /\ error = ""
    /\ successMessage = ""
    /\ form = EmptyForm
    /\ now = 1
    /\ inflight = <<>>
    /\ download = <<>>
    /\ appFields = NoAppFields

EncodeProbe ==
    /\ ~probe.done
    /\ probe' = [probe EXCEPT
                   !.token1 = EncodeReviewerId(probe.email1, probe.id1),
                   !.token2 = EncodeReviewerId(probe.email2, probe.id2),
                   !.done = TRUE]
    /\ UNCHANGED <<currentView, requests, selectedRequest, loading, error,
                   successMessage, feedbackReviewerEmail, feedbackReviewerId,
                   form, url, now, inflight, download,
                   appFields>>

EncNext == EncodeProbe

EncSpec == EncInit /\ [][EncNext]_vars

(***************************************************************************)
(* getRecommendationColor on its own: a recommendation text (or none) is   *)
(* drawn and classified.                                                   *)
(***************************************************************************)
UpperChars ==
    <<"A", "B", "C", "D", "E", "F", "G", "H", "I", "J", "K", "L", "M",
      "N", "O", "P", "Q", "R", "S", "T", "U", "V", "W", "X", "Y", "Z">>

LowerChars ==
    <<"a", "b", "c", "d", "e", "f", "g", "h", "i", "j", "k", "l", "m",
      "n", "o", "p", "q", "r", "s", "t", "u", "v", "w", "x", "y", "z">>

\* String.prototype.toLowerCase, one character
LowerOf(c) ==
    IF \E i \in 1..26 : UpperChars[i] = c
    THEN LowerChars[CHOOSE i \in 1..26 : UpperChars[i] = c]
    ELSE c

ToLowerCase(s) == [i \in 1..Len(s) |-> LowerOf(s[i])]

\* String.prototype.includes with a text argument
IncludesText(s, t) ==
    \E i \in 0..(Len(s) - Len(t)) : SubSeq(s, i + 1, i + Len(t)) = t

StrongHire == <<"s", "t", "r", "o", "n", "g", " ", "h", "i", "r", "e">>

Hire == <<"h", "i", "r", "e">>

Consider == <<"c", "o", "n", "s", "i", "d", "e", "r">>

Caution == <<"c", "a", "u", "t", "i", "o", "n">>

DoNot == <<"d", "o", " ", "n", "o", "t">>

\* Variant: 'do not' is tested first.
GetRecommendationColor_DoNotFirst(recommendation) ==
    LET rec == IF recommendation = Undefined THEN <<>>
               ELSE ToLowerCase(recommendation[1])
    IN IF IncludesText(rec, DoNot) THEN "bg-gradient-to-br from-red-50 to-rose-50"
       ELSE IF IncludesText(rec, StrongHire) THEN "bg-gradient-to-br from-green-50 to-emerald-50"
       ELSE IF IncludesText(rec, Hire) THEN "bg-gradient-to-br from-blue-50 to-cyan-50"
       ELSE IF IncludesText(rec, Consider) THEN "bg-gradient-to-br from-amber-50 to-yellow-50"
       ELSE IF IncludesText(rec, Caution) THEN "bg-gradient-to-br from-orange-50 to-red-50"
       ELSE "bg-gradient-to-br from-slate-50 to-slate-100"

\* Variant: 'hire' is tested before 'strong hire'.
GetRecommendationColor_HireFirst(recommendation) ==
    LET rec == IF recommendation = Undefined THEN <<>>
               ELSE ToLowerCase(recommendation[1])
    IN IF IncludesText(rec, Hire) THEN "bg-gradient-to-br from-blue-50 to-cyan-50"
       ELSE IF IncludesText(rec, StrongHire) THEN "bg-gradient-to-br from-green-50 to-emerald-50"
       ELSE IF IncludesText(rec, Consider) THEN "bg-gradient-to-br from-amber-50 to-yellow-50"
       ELSE IF IncludesText(rec, Caution) THEN "bg-gradient-to-br from-orange-50 to-red-50"
       ELSE IF IncludesText(rec, DoNot) THEN "bg-gradient-to-br from-red-50 to-rose-50"
       ELSE "bg-gradient-to-br from-slate-50 to-slate-100"

\* const rec = recommendation?.toLowerCase() || ''
GetRecommendationColor(recommendation) ==
    LET rec == IF recommendation = Undefined THEN <<>>
               ELSE ToLowerCase(recommendation[1])
    IN IF IncludesText(rec, StrongHire) THEN "bg-gradient-to-br from-green-50 to-emerald-50"
       ELSE IF IncludesText(rec, Hire) THEN "bg-gradient-to-br from-blue-50 to-cyan-50"
       ELSE IF IncludesText(rec, Consider) THEN "bg-gradient-to-br from-amber-50 to-yellow-50"
       ELSE IF IncludesText(rec, Caution) THEN "bg-gradient-to-br from-orange-50 to-red-50"
       ELSE IF IncludesText(rec, DoNot) THEN "bg-gradient-to-br from-red-50 to-rose-50"
       ELSE "bg-gradient-to-br from-slate-50 to-slate-100"

RecCores ==
    { <<"s", "t", "r", "o", "n", "g", " ", "h", "i", "r", "e">>,
      <<"S", "t", "r", "o", "n", "g", " ", "H", "i", "r", "e">>,
      <<"S", "T", "R", "O", "N", "G", " ", "H", "I", "R", "E">>,
      <<"h", "i", "r", "e">>,
      <<"H", "i", "r", "e">>,
      <<"c", "o", "n", "s", "i", "d", "e", "r">>,
      <<"C", "A", "U", "T", "I", "O", "N">>,
      <<"d", "o", " ", "n", "o", "t">>,
      <<"D", "o", " ", "N", "o", "t", " ", "H", "i", "r", "e">>,
      <<"D", "o", " ", "n", "o", "t", " ", "c", "o", "n", "s", "i", "d", "e", "r">>,
      <<"D", "O", " ", "N", "O", "T", " ", "p", "r", "o", "c", "e", "e", "d">>,
      <<"s", "t", "r", "o", "n", "g">>,
      <<"m", "a", "y", "b", "e">>,
      <<>>,
      <<"s", "t", "r", "o", "n", "g", " ", " ", "h", "i", "r", "e">>,
      <<"s", "t", "r", "o", "n", "g", "h", "i", "r", "e">> }

RecPrefixes == { <<>>, <<"n", "o", "t", " ", "a", " ">> }

RecSuffixes == { <<>>, <<"!">> }

RecInputs ==
    {Undefined} \cup
    { Some(p \o c \o s) : p \in RecPrefixes, c \in RecCores, s \in RecSuffixes }

\* the cells of the application, untouched while a pure function is examined
appVars == <<currentView, requests, selectedRequest, loading, error,
             successMessage, feedbackReviewerEmail, feedbackReviewerId,
             form, url, now, inflight, download,
                   appFields>>

AppAtRest ==
    /\ url = [reviewerId |-> Absent, email |-> Absent, assessmentId |-> Absent]
    /\ requests = <<>>
    /\ currentView = "input"
    /\ selectedRequest = NoRequest
    /\ feedbackReviewerId = <<>>
    /\ feedbackReviewerEmail = <<>>
    /\ loading = FALSE
    /\ error = ""
    /\ successMessage = ""
    /\ form = EmptyForm
    /\ now = 1
    /\ inflight = <<>>
    /\ download = <<>>
    /\ appFields = NoAppFields

RecInit ==
    /\ probe \in [recommendation : RecInputs, color : {""}, done : {FALSE}]
    /\ AppAtRest

ClassifyProbe ==
    /\ ~probe.done
    /\ probe' = [probe EXCEPT !.color = GetRecommendationColor(probe.recommendation),
                              !.done = TRUE]
    /\ UNCHANGED appVars

RecNext == ClassifyProbe

RecSpec == RecInit /\ [][RecNext]_vars

(***************************************************************************)
(* generatePDFContent and SummaryView on their own: two assessments, as    *)
(* handleSubmit and handleFeedbackSubmit build them, are drawn; both are   *)
(* exported and the summary of the first is rendered.                      *)
(***************************************************************************)
\* a summary without recommendation, rationale, executive summary and
\* strong_agreement, with two breakdown entries, one of them without score
PartialSummary ==
    [EmptySummary EXCEPT
        !.overall_score = Some(4 * ScoreUnit),
        !.criterion_breakdown =
            Some(<<CriterionEntry("cultural_fit", Some(5), Some(<<"g">>)),
                   CriterionEntry("team_management", Undefined, Undefined)>>),
        !.consensus_areas =
            Some([strong_agreement |-> Undefined,
                  areas_of_disagreement |-> Some(<<"d">>)])]

NoBreakdownSummary == [FullSummary EXCEPT !.criterion_breakdown = Undefined]

ProbeFeedbacks ==
    {EmptyObject} \cup
    { Obj(Undefined, Some(sm)) :
        sm \in {FullSummary, EmptySummary, PartialSummary, NoBreakdownSummary} }

ProbeRequests ==
    LET created ==
            { NewRequest(n, RoleE, ReviewerList(text), t, fb) :
                n \in {NameS, <<"T">>},
                text \in {TextThree, TextOne},
                t \in {1, MsPerDay + 1},
                fb \in ProbeFeedbacks }
    IN created \cup
       { UpdatedRequest(r, MakeSubmission(r, EmailA, r.createdAt + 1,
                                          AllScores(4), NoComments)) :
           r \in created }

NoView == [raised |-> FALSE, shown |-> <<>>]

ReportInit ==
    /\ probe \in [r1 : ProbeRequests, r2 : ProbeRequests,
                  content1 : {<<>>}, content2 : {<<>>}, exported : {FALSE},
                  view1 : {NoView}, rendered : {FALSE}]
    /\ AppAtRest

ExportProbe ==
    /\ ~probe.exported
    /\ probe' = [probe EXCEPT !.content1 = GeneratePDFContent(probe.r1),
                              !.content2 = GeneratePDFContent(probe.r2),
                              !.exported = TRUE]
    /\ UNCHANGED appVars

RenderProbe ==
    /\ ~probe.rendered
    /\ probe' = [probe EXCEPT !.view1 = SummaryView(probe.r1.feedback),
                              !.rendered = TRUE]
    /\ UNCHANGED appVars

ReportNext == ExportProbe \/ RenderProbe

ReportSpec == ReportInit /\ [][ReportNext]_vars

(***************************************************************************)
(* The percentage of the overall score on its own: an overall_score from    *)
(* 0 to 5 in steps of 0.01, or none, is drawn, shown in the summary view    *)
(* and exported.                                                            *)
(***************************************************************************)
ScoreInputs == {Undefined} \cup {Some(v) : v \in 0..(5 * ScoreUnit)}

ScoredRequest(score) ==
    NewRequest(NameS, RoleE, ReviewerList(TextOne), 1,
               Obj(Undefined, Some([EmptySummary EXCEPT !.overall_score = score])))

ScoreInit ==
    /\ probe \in [score : ScoreInputs, percent : {<<>>}, content : {<<>>},
                  done : {FALSE}]
    /\ AppAtRest

ScoreProbe ==
    /\ ~probe.done
    /\ probe' = [probe EXCEPT
                   !.percent = OverallPercent(ScoredRequest(probe.score).feedback),
                   !.content = GeneratePDFContent(ScoredRequest(probe.score)),
                   !.done = TRUE]
    /\ UNCHANGED appVars

ScoreNext == ScoreProbe

ScoreSpec == ScoreInit /\ [][ScoreNext]_vars

(***************************************************************************)
(* The variant src/unnamed/part_000.  App has the cells candidateName,     *)
(* candidateRole and reviewerEmails (appFields) and handleSubmit reads     *)
(* them; InputSection keeps what is typed in cells of its own (form) and   *)
(* hands only the submit event to onSubmit.  There is no URL router and no *)
(* feedback view.                                                          *)
(***************************************************************************)
\* "a@\n b@ \nc" : two emails and a line without '@'
Part000_TextTwo == <<"a", "@", "\n", " ", "b", "@", " ", "\n", "c">>

\* the three cells of InputSection
Part000_Forms ==
    [candidateName : {<<>>, <<" ">>, NameS},
     candidateRole : {<<>>, <<" ">>, RoleE},
     reviewerEmails : {<<>>, TextBlank, TextNoAt, TextNoBar, EmailZ, Part000_TextTwo}]

\* reviewerEmails.split('\n').map(e => e.trim()).filter(e => e && e.includes('@'))
Part000_EmailList(reviewerEmails) ==
    SelectSeq(MapTrim(Split(reviewerEmails, "\n")),
              LAMBDA e : Len(e) > 0 /\ Includes(e, "@"))

\* !candidateName.trim() || !candidateRole.trim() || !reviewerEmails.trim()
Part000_FieldsMissing(f) ==
    \/ Len(Trim(f.candidateName)) = 0
    \/ Len(Trim(f.candidateRole)) = 0
    \/ Len(Trim(f.reviewerEmails)) = 0

\* const newRequest = { id: Date.now().toString(), candidateName, ... }; the
\* agent responses of this model carry no form_links, so formLinks is [].
Part000_NewRequest(c, feedbackData, t) ==
    [id |-> NumToString(t),
     candidateName |-> c.candidateName,
     candidateRole |-> c.candidateRole,
     reviewerEmails |-> c.reviewerList,
     status |-> "sent",
     createdAt |-> t,
     formLinks |-> <<>>,
     feedback |-> feedbackData]

Part000_Init ==
    /\ url = [reviewerId |-> Absent, email |-> Absent, assessmentId |-> Absent]
    /\ currentView = "input"
    /\ appFields = NoAppFields
    /\ requests = <<>>
    /\ selectedRequest = NoRequest
    /\ loading = FALSE
    /\ error = ""
    /\ successMessage = ""
    /\ form = NoAppFields
    /\ feedbackReviewerId = <<>>
    /\ feedbackReviewerEmail = <<>>
    /\ now = 1
    /\ inflight = <<>>
    /\ probe = NoProbe
    /\ download = <<>>

\* InputSection: onChange of the three inputs sets InputSection's own cells
Part000_TypeForm(f) ==
    /\ currentView = "input"
    /\ form' = f
    /\ UNCHANGED <<currentView, appFields, requests, selectedRequest, loading,
                   error, successMessage, feedbackReviewerEmail,
                   feedbackReviewerId, url, now, inflight, probe, download>>

\* Header buttons 'New Assessment' and 'Dashboard'; InputSection is unmounted
\* in the dashboard view and starts with empty cells when it is shown again.
Part000_Navigate(view) ==
    /\ currentView' = view
    /\ form' = IF currentView = "input" /\ view = "input" THEN form ELSE NoAppFields
    /\ UNCHANGED <<appFields, requests, selectedRequest, loading, error,
                   successMessage, feedbackReviewerEmail, feedbackReviewerId,
                   url, now, inflight, probe, download>>

\* <form onSubmit={onSubmit}> with <Button type="submit" disabled={loading}>:
\* handleSubmit up to the await, reading App's own cells
Part000_HandleSubmit ==
    /\ currentView = "input"
    /\ ~loading
    /\ successMessage' = ""
    /\ IF Part000_FieldsMissing(appFields)
       THEN /\ error' = "Please fill in all fields"
            /\ UNCHANGED <<loading, inflight>>
       ELSE IF Len(Part000_EmailList(appFields.reviewerEmails)) = 0
       THEN /\ error' = "Please enter at least one valid email address"
            /\ UNCHANGED <<loading, inflight>>
       ELSE /\ error' = ""
            /\ loading' = TRUE
            /\ inflight' = Append(inflight,
                               [kind |-> "create",
                                candidateName |-> appFields.candidateName,
                                candidateRole |-> appFields.candidateRole,
                                reviewerList |->
                                    Part000_EmailList(appFields.reviewerEmails),
                                requests |-> requests])
    /\ UNCHANGED <<currentView, appFields, requests, selectedRequest, form,
                   feedbackReviewerEmail, feedbackReviewerId, url, now, probe,
                   download>>

\* handleSubmit after the await, agent call fulfilled.  HandleSubmit never
\* issues a call (appFields is only ever assigned ''), so no reachable state
\* enables this step and the next one; they are not disjuncts of Part000_Next.
Part000_CreateReturns(k, response) ==
    /\ k \in 1..Len(inflight)
    /\ inflight[k].kind = "create"
    /\ LET c == inflight[k]
           newRequest == Part000_NewRequest(c, FeedbackData(response), now)
       IN /\ requests' = Append(c.requests, newRequest)
          /\ selectedRequest' = newRequest
    /\ appFields' = NoAppFields
    /\ successMessage' = "Feedback collection initiated successfully!"
    /\ currentView' = "dashboard"
    /\ form' = NoAppFields
    /\ loading' = FALSE
    /\ inflight' = Settled(k)
    /\ now' = now + 1
    /\ UNCHANGED <<error, feedbackReviewerEmail, feedbackReviewerId, url, probe,
                   download>>

\* handleSubmit after the await, agent call rejected: catch, finally
Part000_CreateThrows(k, message) ==
    /\ k \in 1..Len(inflight)
    /\ inflight[k].kind = "create"
    /\ error' = IF message # "" THEN message ELSE "Failed to process request"
    /\ loading' = FALSE
    /\ inflight' = Settled(k)
    /\ UNCHANGED <<currentView, appFields, requests, selectedRequest,
                   successMessage, feedbackReviewerEmail, feedbackReviewerId,
                   form, url, now, probe, download>>

Part000_Next ==
    \/ \E f \in Part000_Forms : Part000_TypeForm(f)
    \/ \E v \in {"input", "dashboard"} : Part000_Navigate(v)
    \/ Part000_HandleSubmit

Part000_Spec == Part000_Init /\ [][Part000_Next]_vars

(***************************************************************************)
(* Properties.                                                             *)
(***************************************************************************)
IsPrefix(p, q) == Len(p) <= Len(q) /\ SubSeq(q, 1, Len(p)) = p

RosterOf(r) == {r.reviewerEmails[i] : i \in 1..Len(r.reviewerEmails)}

\* C1: a feedback submission appends exactly one submission to the selected
\* assessment: the entry stored for it is the previous value with the new
\* submission (bound reviewer email, time of the click) added at the end and
\* nothing else changed, also when that reviewer submitted before.
C1_AppendSubmission ==
    [][(\E sc \in ScoreChoices : HandleFeedbackSubmit(sc)) =>
          LET old == selectedRequest
              i == CHOOSE j \in 1..Len(requests') : requests'[j].id = old.id
              new == requests'[i]
              n == Len(old.responses)
          IN /\ \E j \in 1..Len(requests) : requests[j].id = old.id
             /\ requests[i].responses = old.responses
             /\ Len(new.responses) = n + 1
             /\ SubSeq(new.responses, 1, n) = old.responses
             /\ new.responses[n + 1].reviewerEmail = feedbackReviewerEmail
             /\ new.responses[n + 1].submissionTimestamp = now
             /\ [new EXCEPT !.responses = old.responses] = old]_vars

\* an assessment holds two submissions of the same roster reviewer
C1_Witness ==
    \E i \in 1..Len(requests) :
        /\ Len(requests[i].responses) = 2
        /\ requests[i].responses[1].reviewerEmail = requests[i].responses[2].reviewerEmail
        /\ requests[i].responses[1].reviewerEmail \in RosterOf(requests[i])

\* C2: submissions are append-only: in every step every assessment of the list
\* keeps its place and id, and its submissions before the step are a prefix of
\* its submissions after it.
C2_AppendOnly ==
    [][\A i \in 1..Len(requests) :
          /\ i <= Len(requests')
          /\ requests'[i].id = requests[i].id
          /\ IsPrefix(requests[i].responses, requests'[i].responses)]_vars

\* a second assessment was created after the first one received a submission,
\* and then received one itself
C2_Witness ==
    /\ Len(requests) = 2
    /\ Len(requests[1].responses) = 1
    /\ Len(requests[2].responses) = 1
    /\ requests[1].responses[1].submissionTimestamp < requests[2].createdAt

LinkMarkers == {"?reviewerId=", "&email=", "&assessmentId="}

RECURSIVE UpToMarker(_)
UpToMarker(t) ==
    IF Len(t) = 0 \/ Head(t) \in LinkMarkers THEN <<>>
    ELSE <<Head(t)>> \o UpToMarker(Tail(t))

\* the text that follows `marker` in the link, up to the next marker
LinkParam(link, marker) ==
    UpToMarker(SubSeq(link, IndexOf(link, marker) + 1, Len(link)))

\* C3: every stored assessment has at least one reviewer, one form link per
\* reviewer, and at each position the link's email is the reviewer's email,
\* its reviewerId is the encoding of (that email, the assessment's id) and its
\* assessmentId is the assessment's id.
C3_FormLinksMatchRoster ==
    \A k \in 1..Len(requests) :
        LET r == requests[k]
        IN /\ Len(r.reviewerEmails) >= 1
           /\ Len(r.formLinks) = Len(r.reviewerEmails)
           /\ \A i \in 1..Len(r.formLinks) :
                 /\ Includes(r.reviewerEmails[i], "@")
                 /\ r.formLinks[i].email = r.reviewerEmails[i]
                 /\ LinkParam(r.formLinks[i].link, "&email=") = r.reviewerEmails[i]
                 /\ LinkParam(r.formLinks[i].link, "?reviewerId=")
                        = Btoa(r.reviewerEmails[i] \o <<"-">> \o r.id)
                 /\ LinkParam(r.formLinks[i].link, "&assessmentId=") = r.id

\* an assessment with several reviewers, two of them with different emails
C3_Witness ==
    \E k \in 1..Len(requests) :
        /\ Len(requests[k].formLinks) >= 2
        /\ requests[k].reviewerEmails[1] # requests[k].reviewerEmails[2]

IsDigits(t) == \A i \in 1..Len(t) : \E d \in 1..10 : t[i] = DigitChars[d]

LineHasEmail(line) ==
    LET parts == Split(line, "|")
    IN Len(parts) >= 2 /\ Includes(Trim(parts[2]), "@")

InvalidForm(f) ==
    \/ Trim(f.candidateName) = <<>>
    \/ Trim(f.candidateRole) = <<>>
    \/ Trim(f.reviewerData) = <<>>
    \/ LET lines == Split(f.reviewerData, "\n")
       IN \A i \in 1..Len(lines) : ~LineHasEmail(lines[i])

ValidationErrors ==
    {"Please fill in all fields", "Please enter at least one valid reviewer with email"}

\* C5: a create from a form whose name, role or reviewer text is empty after
\* trimming, or whose reviewer lines hold no email with '@', ends with a
\* validation error and changes nothing else: list, selection, view and busy
\* flag are as before and no agent call is issued.
C5_ValidationAborts ==
    [][(HandleSubmit /\ InvalidForm(form)) =>
          /\ error' \in ValidationErrors
          /\ loading' = FALSE
          /\ UNCHANGED <<requests, selectedRequest, currentView, loading, inflight>>]_vars

\* a create from a form whose only reviewer line has no '@' was refused while
\* the list already held an assessment
C5_Witness ==
    /\ error = "Please enter at least one valid reviewer with email"
    /\ form.reviewerData = TextNoAt
    /\ successMessage = ""
    /\ Len(requests) = 1
    /\ ~loading

\* C6: every stored submission's reviewerEmail is one of the reviewer emails of
\* the assessment that holds it.
C6_SubmittersOnRoster ==
    \A i \in 1..Len(requests) :
        \A j \in 1..Len(requests[i].responses) :
            requests[i].responses[j].reviewerEmail \in RosterOf(requests[i])

\* C7: the busy flag is true only while an agent call is outstanding, it is
\* false right after a call is settled (fulfilled or rejected), and whenever it
\* is true it eventually becomes false.
C7_BusyReleased ==
    /\ [](loading => Len(inflight) > 0)
    /\ [][Len(inflight') < Len(inflight) => ~loading']_vars
    /\ [](loading => <>(~loading))

\* a rejected resend left the application idle with its error message
C7_Witness ==
    /\ error = "Failed to resend invitations"
    /\ ~loading
    /\ inflight = <<>>

\* C8: at most one agent call is outstanding, and while one is, the three
\* triggering controls are disabled.
C8_OneCallAtATime ==
    /\ Len(inflight) <= 1
    /\ Len(inflight) = 1 =>
          StartAssessmentDisabled /\ ResendDisabled /\ SubmitFeedbackDisabled

\* a resend is outstanding while the creation form is filled in and shown
C8_Witness ==
    /\ Len(inflight) = 1
    /\ inflight[1].kind = "resend"
    /\ currentView = "input"
    /\ form = ValidForm

UrlAllPresent ==
    url.reviewerId # <<>> /\ url.email # <<>> /\ url.assessmentId # <<>>

UrlMatches(reqs) == \E j \in 1..Len(reqs) : reqs[j].id = url.assessmentId

\* C9: after the first render the view is the creation form with nothing
\* selected, and after every change of the list the application is in the
\* feedback view, bound to the URL's reviewer id and email and to the
\* assessment with the URL's id, exactly when the three parameters are present
\* and such an assessment is in the list; otherwise view and selection are the
\* ones the handler set (dashboard and the new assessment after a create, the
\* creation form and the updated assessment after a submission).
C9_RouterBinding ==
    /\ (currentView = "input" /\ selectedRequest = NoRequest)
    /\ [][requests' # requests =>
            LET created == Len(requests') > Len(requests)
            IN IF UrlAllPresent /\ UrlMatches(requests')
               THEN /\ currentView' = "feedback"
                    /\ selectedRequest'.id = url.assessmentId
                    /\ \E j \in 1..Len(requests') : selectedRequest' = requests'[j]
                    /\ feedbackReviewerId' = url.reviewerId
                    /\ feedbackReviewerEmail' = url.email
               ELSE /\ currentView' = (IF created THEN "dashboard" ELSE "input")
                    /\ selectedRequest' =
                          (IF created THEN requests'[Len(requests')]
                           ELSE requests'[CHOOSE j \in 1..Len(requests') :
                                             requests'[j].id = selectedRequest.id])]_vars

\* a complete URL whose assessment id matches nothing: a create ended in the
\* dashboard, with the reviewer of the URL bound
C9_Witness ==
    /\ UrlAllPresent
    /\ Len(requests) = 1
    /\ ~UrlMatches(requests)
    /\ currentView = "dashboard"
    /\ selectedRequest = requests[1]
    /\ feedbackReviewerEmail = url.email

\* C10: when the URL carries the three parameters and a step adds the
\* assessment with the URL's id to a list that did not hold it, that step ends
\* in the feedback view with that assessment selected.
C10_RouterReevaluated ==
    [][(UrlAllPresent /\ ~UrlMatches(requests) /\ UrlMatches(requests')) =>
          /\ currentView' = "feedback"
          /\ selectedRequest' \in {requests'[j] : j \in 1..Len(requests')}
          /\ selectedRequest'.id = url.assessmentId]_vars

\* the assessment of the URL was created after the page was loaded and the
\* application is in its feedback form, nothing submitted yet
C10_Witness ==
    /\ UrlAllPresent
    /\ Len(requests) = 1
    /\ requests[1].id = url.assessmentId
    /\ requests[1].responses = <<>>
    /\ currentView = "feedback"
    /\ selectedRequest = requests[1]
    /\ successMessage = "Assessment created! Share the feedback form links with reviewers."

\* the text holds the pattern at some offset, letter case ignored
OccursIgnoringCase(text, pattern) ==
    \E i \in 0..(Len(text) - Len(pattern)) :
        \A j \in 1..Len(pattern) : LowerOf(text[i + j]) = LowerOf(pattern[j])

RecPatterns == <<StrongHire, Hire, Consider, Caution, DoNot>>

RecClasses ==
    <<"bg-gradient-to-br from-green-50 to-emerald-50", "bg-gradient-to-br from-blue-50 to-cyan-50",
      "bg-gradient-to-br from-amber-50 to-yellow-50", "bg-gradient-to-br from-orange-50 to-red-50",
      "bg-gradient-to-br from-red-50 to-rose-50">>

\* C11: the class given to a recommendation is that of the first pattern of
\* 'strong hire', 'hire', 'consider', 'caution', 'do not' that occurs in it in
\* any letter case, and the neutral class when none occurs or the
\* recommendation is absent; a text holding 'strong hire' is never given the
\* class of 'hire'.
C11_FirstMatchWins ==
    probe.done =>
        LET text == IF probe.recommendation = Undefined THEN <<>>
                    ELSE probe.recommendation[1]
            hits == {n \in 1..5 : OccursIgnoringCase(text, RecPatterns[n])}
        IN /\ hits = {} => probe.color = "bg-gradient-to-br from-slate-50 to-slate-100"
           /\ hits # {} =>
                 \E n \in hits : /\ \A m \in hits : n <= m
                                 /\ probe.color = RecClasses[n]
           /\ 1 \in hits => probe.color = RecClasses[1]

\* 'not a Strong Hire!' was classified: it holds 'strong hire' and 'hire'
C11_Witness ==
    /\ probe.done
    /\ probe.recommendation = Some(<<"n", "o", "t", " ", "a", " ", "S", "t", "r", "o", "n", "g", " ", "H", "i", "r", "e", "!">>)
    /\ probe.color = "bg-gradient-to-br from-green-50 to-emerald-50"

\* the fields of an assessment the report is said to depend on
ReportFields(r) ==
    <<r.candidateName, r.candidateRole, r.createdAt, r.feedback.feedback_summary>>

\* C12: two assessments that agree on candidate name, candidate role, creation
\* date and analysis summary are exported to the same text, whatever their
\* submissions, rosters, form links and ids are.
C12_ReportDependsOnlyOn ==
    (probe.exported /\ ReportFields(probe.r1) = ReportFields(probe.r2)) =>
        probe.content1 = probe.content2

\* two assessments with a summary that differ in roster and submissions but
\* agree on the four fields were exported
C12_Witness ==
    /\ probe.exported
    /\ ReportFields(probe.r1) = ReportFields(probe.r2)
    /\ probe.r1.feedback.feedback_summary = Some(FullSummary)
    /\ Len(probe.r1.responses) = 1
    /\ Len(probe.r2.responses) = 0
    /\ probe.r1.reviewerEmails # probe.r2.reviewerEmails
    /\ Len(probe.content1) > 0

\* the lines of a text
LinesOf(content) == Split(content, "\n")

HasLine(content, line) ==
    \E i \in 1..Len(LinesOf(content)) : LinesOf(content)[i] = line

\* C13: in the exported report an absent recommendation, rationale, consensus
\* entry or executive summary gives an empty value, and every criterion that
\* has no entry in the breakdown is reported with score 0 and empty feedback.
C13_MissingRendersEmpty ==
    probe.exported =>
        LET sm == OrEmptySummary(probe.r1.feedback.feedback_summary)
            entries == OrEmptyList(sm.criterion_breakdown)
        IN /\ sm.recommendation = Undefined =>
                 HasLine(probe.content1, <<"Recommendation: ">>)
           /\ sm.recommendation_rationale = Undefined =>
                 HasLine(probe.content1, <<"Rationale: ">>)
           /\ ConsensusOf(sm, "strong_agreement") = Undefined =>
                 HasLine(probe.content1, <<"Strong Agreement: ">>)
           /\ ConsensusOf(sm, "areas_of_disagreement") = Undefined =>
                 HasLine(probe.content1, <<"Areas of Disagreement: ">>)
           /\ sm.executive_summary = Undefined =>
                 LinesOf(probe.content1)[Len(LinesOf(probe.content1))]
                     = <<"=================">>
           /\ \A i \in 1..Len(CriteriaList) :
                 BreakdownEntry(entries, CriteriaList[i]) = Undefined =>
                     HasLine(probe.content1, <<CriteriaList[i], ": ", "0", "/5 - ">>)

\* C14: in the summary view the render raises nothing, and every criterion of
\* the fixed list that has no entry in the breakdown (also when the breakdown
\* or the whole summary is absent) is shown with score 0 and empty feedback,
\* in the order of the list.
C14_SummaryDefaults ==
    probe.rendered =>
        LET fb == probe.r1.feedback
            entries == IF fb.feedback_summary = Undefined THEN <<>>
                       ELSE IF fb.feedback_summary[1].criterion_breakdown = Undefined
                       THEN <<>>
                       ELSE fb.feedback_summary[1].criterion_breakdown[1]
        IN /\ ~probe.view1.raised
           /\ Len(probe.view1.shown) = 5
           /\ \A i \in 1..5 :
                 (\A j \in 1..Len(entries) : entries[j].key # CriteriaList[i]) =>
                     /\ probe.view1.shown[i].score = Some(0)
                     /\ probe.view1.shown[i].feedback = Some(<<>>)

\* a summary whose breakdown holds two of the five criteria was rendered
C14_Witness ==
    /\ probe.rendered
    /\ probe.r1.feedback.feedback_summary = Some(PartialSummary)
    /\ probe.view1.shown[1] = DefaultCriterion
    /\ probe.view1.shown[4].score = Some(5)

\* the text has a line that starts with the given pieces
HasLineStarting(content, start) ==
    \E i \in 1..Len(LinesOf(content)) :
        IsPrefix(start, LinesOf(content)[i])

\* C15: when the selected assessment was created with one reviewer and holds
\* exactly one submission, made by that reviewer with all five scores 4, the
\* report that an export then hands out contains the candidate name and, for
\* each criterion, the submitted score.
C15_ReportHoldsSubmittedScores ==
    [][( /\ HandleExportPDF
         /\ Len(selectedRequest.reviewerEmails) = 1
         /\ Len(selectedRequest.responses) = 1
         /\ selectedRequest.responses[1].reviewerEmail = selectedRequest.reviewerEmails[1]
         /\ selectedRequest.responses[1].scores = AllScores(4)
         /\ \E i \in 1..Len(requests) : requests[i] = selectedRequest )
       => /\ IncludesText(download', selectedRequest.candidateName)
          /\ \A c \in Criteria :
                HasLineStarting(download', <<c, ": ", "4", "/5 - ">>)]_vars

\* an agent call of create, submit-feedback or resend is rejected and the
\* handler runs its catch and finally
AgentCallFails ==
    \E k \in 1..Len(inflight), m \in AgentErrors :
        CreateThrows(k, m) \/ FeedbackThrows(k, m) \/ ResendThrows(k, m)

\* C16: whenever the agent call of create, submit-feedback or resend fails,
\* the state reached when the handler finishes shows a non-empty error message
\* in the view the user is on.
C16_FailureShown ==
    [][AgentCallFails => ErrorShown']_vars

\* C17: in every stored assessment no two roster entries have the same email.
C17_RosterEmailsUnique ==
    \A i \in 1..Len(requests) :
        \A a, b \in 1..Len(requests[i].reviewerEmails) :
            requests[i].reviewerEmails[a] = requests[i].reviewerEmails[b] => a = b

\* the URL's reviewerId is the token of the URL's email and assessment id
UrlTokenMatches == url.reviewerId = EncodeReviewerId(url.email, url.assessmentId)

\* C18: when the URL's reviewerId is not the token of its email and assessment
\* id, no change of the assessment list makes the router enter the feedback
\* view: the application stays in the view the handler set.
C18_MismatchedLinkStaysDefault ==
    [][(requests' # requests /\ UrlAllPresent /\ ~UrlTokenMatches) =>
          currentView' # "feedback"]_vars

\* C19: when the agent's answer to a create cannot be parsed, the handler
\* completes without error: one assessment is added to the list the handler
\* closed over, with an empty analysis, the roster of the parsed reviewer lines
\* and one form link per reviewer, and the busy flag is released.
C19_UnparseableDegrades ==
    [][\A k \in 1..Len(inflight) :
          CreateReturns(k, Unparseable) =>
              LET c == inflight[k]
                  new == requests'[Len(requests')]
                  n == Len(c.reviewerList)
              IN /\ Len(requests') = Len(c.requests) + 1
                 /\ new.feedback = EmptyObject
                 /\ n > 0
                 /\ Len(new.reviewerEmails) = n
                 /\ Len(new.formLinks) = n
                 /\ \A j \in 1..n :
                       /\ new.reviewerEmails[j] = c.reviewerList[j].email
                       /\ new.reviewerNames[j] = c.reviewerList[j].name
                       /\ new.formLinks[j].email = c.reviewerList[j].email
                 /\ error' = error
                 /\ ~loading']_vars

\* an assessment with an empty analysis and three form links is in the list
C19_Witness ==
    \E i \in 1..Len(requests) :
        /\ requests[i].feedback = EmptyObject
        /\ Len(requests[i].formLinks) = 3
        /\ currentView = "dashboard"

\* C20: every assessment in the list has status 'sent'.
C20_StatusSent ==
    \A i \in 1..Len(requests) : requests[i].status = "sent"

\* an assessment that received a submission and was exported, after a resend
C20_Witness ==
    /\ Len(requests) = 2
    /\ Len(requests[1].responses) = 1
    /\ download = GeneratePDFContent(requests[1])
    /\ successMessage = "Invitations resent successfully!"
    /\ requests[1].status = "sent"

\* C21: in every step every assessment of the list keeps its place and all its
\* fields but the submissions; an assessment changes only in a step of
\* handleFeedbackSubmit and only if it is the one that was selected.
C21_OnlySubmissionsChange ==
    [][\A i \in 1..Len(requests) :
          /\ i <= Len(requests')
          /\ [requests'[i] EXCEPT !.responses = requests[i].responses] = requests[i]
          /\ requests'[i] # requests[i] =>
                /\ \E sc \in ScoreChoices : HandleFeedbackSubmit(sc)
                /\ requests[i].id = selectedRequest.id]_vars

\* two assessments, the second with a submission and the first without, after
\* an export of the first and a resend
C21_Witness ==
    /\ Len(requests) = 2
    /\ Len(requests[1].responses) = 0
    /\ Len(requests[2].responses) = 1
    /\ download = GeneratePDFContent(requests[1])
    /\ successMessage = "Invitations resent successfully!"

\* p is the whole number nearest to 20 times the score v given in hundredths
NearestPercent(v, p) ==
    LET d == IF 100 * p >= 20 * v THEN 100 * p - 20 * v ELSE 20 * v - 100 * p
    IN 2 * d <= 100

\* C22: for every overall_score from 0 to 5 the summary view shows the whole
\* number nearest to overall_score * 20 followed by '%', an absent
\* overall_score shows 0%, 3.5 shows 70%, and the 'Overall Score' line of the
\* exported report holds the same percentage.
C22_PercentRounded ==
    probe.done =>
        LET v == IF probe.score = Undefined THEN 0 ELSE probe.score[1]
        IN /\ \E p \in 0..100 :
                 /\ NearestPercent(v, p)
                 /\ probe.percent = NumToString(p) \o <<"%">>
           /\ HasLine(probe.content, <<"Overall Score: ">> \o probe.percent)
           /\ v = 0 => probe.percent = <<"0", "%">>
           /\ v = 350 => probe.percent = <<"7", "0", "%">>

\* 3.48 was shown and exported: 69.6 is rendered as 70%
C22_Witness ==
    /\ probe.done
    /\ probe.score = Some(348)
    /\ probe.percent = <<"7", "0", "%">>
    /\ HasLine(probe.content, <<"Overall Score: ", "7", "0", "%">>)

\* C23: in every step every id of the list is still the id of an assessment of
\* the list after the step, also in the steps in which a create writes back the
\* list it captured before its agent call.
C23_NoAssessmentLost ==
    [][\A i \in 1..Len(requests) :
          \E j \in 1..Len(requests') : requests'[j].id = requests[i].id]_vars

\* a create was completed on a list that already held an assessment with a
\* submission; both are in the list
C23_Witness ==
    /\ Len(requests) = 2
    /\ requests[1].id # requests[2].id
    /\ Len(requests[1].responses) = 1
    /\ requests[2].createdAt > requests[1].responses[1].submissionTimestamp
    /\ inflight = <<>>

\* C24: whenever an assessment is selected, the selected value is the entry of
\* the list with the same id.
C24_SelectionIsCurrent ==
    selectedRequest # NoRequest =>
        /\ \E i \in 1..Len(requests) : requests[i].id = selectedRequest.id
        /\ \A i \in 1..Len(requests) :
              requests[i].id = selectedRequest.id => requests[i] = selectedRequest

\* the selected assessment received a submission through the 'Give Feedback'
\* button and the second assessment of the list is the one selected
C24_Witness ==
    /\ Len(requests) = 2
    /\ selectedRequest = requests[2]
    /\ Len(selectedRequest.responses) = 1
    /\ currentView = "input"

\* C25: whenever the feedback form of a selected assessment is shown, the bound
\* reviewer email is non-empty and contains '@', and every stored submission
\* has a non-empty reviewerEmail.
C25_FeedbackFormHasReviewer ==
    /\ currentView = "feedback" /\ selectedRequest # NoRequest =>
          /\ feedbackReviewerEmail # <<>>
          /\ Includes(feedbackReviewerEmail, "@")
    /\ \A i \in 1..Len(requests) :
          \A j \in 1..Len(requests[i].responses) :
              requests[i].responses[j].reviewerEmail # <<>>

\* C26: the step that appends a feedback submission, the re-run of the URL
\* router on the changed list included, ends in the 'input' view with no
\* reviewer id and no reviewer email bound.
C26_LeavesFeedbackMode ==
    [][(\E sc \in ScoreChoices : HandleFeedbackSubmit(sc)) =>
          /\ currentView' = "input"
          /\ feedbackReviewerId' = <<>>
          /\ feedbackReviewerEmail' = <<>>]_vars

C28_SubmissionKeptOnFailure ==
    [][\A k \in 1..Len(inflight), m \in AgentErrors :
          FeedbackThrows(k, m) =>
              /\ requests' = requests
              /\ TotalResponses(requests') >= 1
              /\ selectedRequest' = selectedRequest
              /\ error' # ""
              /\ successMessage' = "Thank you! Your feedback has been submitted."]_vars

\* the notification of a submission failed; the submission is stored and both
\* messages are set
C28_Witness ==
    /\ error = "Failed to submit feedback"
    /\ successMessage = "Thank you! Your feedback has been submitted."
    /\ ~loading
    /\ \E i \in 1..Len(requests) : Len(requests[i].responses) = 1

DoNotHire == <<"D", "o", " ", "N", "o", "t", " ", "H", "i", "r", "e">>

\* C29: a recommendation is given the class of 'do not' exactly when 'do not'
\* occurs in it and none of 'hire', 'consider', 'caution' does, in any letter
\* case; 'Do Not Hire' is given the class of 'hire'.
C29_DoNotOnlyWhenAlone ==
    probe.done =>
        LET text == IF probe.recommendation = Undefined THEN <<>>
                    ELSE probe.recommendation[1]
        IN /\ probe.color = "bg-gradient-to-br from-red-50 to-rose-50" <=>
                 /\ OccursIgnoringCase(text, DoNot)
                 /\ ~OccursIgnoringCase(text, Hire)
                 /\ ~OccursIgnoringCase(text, Consider)
                 /\ ~OccursIgnoringCase(text, Caution)
           /\ text = DoNotHire =>
                 probe.color = "bg-gradient-to-br from-blue-50 to-cyan-50"

\* 'Do Not Hire' was classified and has the class of 'hire'
C29_Witness ==
    /\ probe.done
    /\ probe.recommendation = Some(DoNotHire)
    /\ probe.color = "bg-gradient-to-br from-blue-50 to-cyan-50"

\* what is typed into the creation form of part_000 has a non-empty candidate
\* name, a non-empty role and at least one line with '@'
Part000_TypedValid ==
    /\ Len(Trim(form.candidateName)) > 0
    /\ Len(Trim(form.candidateRole)) > 0
    /\ \E i \in 1..Len(Split(form.reviewerEmails, "\n")) :
          Includes(Split(form.reviewerEmails, "\n")[i], "@")

\* C30: in part_000, submitting the creation form with a non-empty candidate
\* name, a non-empty role and at least one email with '@' typed into it passes
\* validation and issues the agent call with the typed values.
C30_TypedValuesSubmitted ==
    [][(Part000_HandleSubmit /\ Part000_TypedValid) =>
          /\ error' = ""
          /\ loading'
          /\ Len(inflight') = 1
          /\ inflight'[1].candidateName = form.candidateName
          /\ inflight'[1].candidateRole = form.candidateRole
          /\ inflight'[1].reviewerList = Part000_EmailList(form.reviewerEmails)]_vars

====
